---- MODULE Spec2Model ----
(***************************************************************************)
(* Model of the poll data-access layer of alx-polly: the PollRepository,   *)
(* the /api/polls and /api/polls/[id] route handlers, the createPollSchema *)
(* validator and the store schema (tables, NOT NULL and foreign-key        *)
(* constraints, cascade deletes and row-level policies of db.sql).         *)
(*                                                                         *)
(* Every awaited store call is one atomic step of the request that issues  *)
(* it; requests of different processes interleave between their steps.     *)
(***************************************************************************)
EXTENDS Integers, Sequences, FiniteSets, TLC

(* ------------------------------ bounds -------------------------------- *)
\* request slots that may run concurrently
NumProcs == 2
\* requests started in one behaviour
MaxRequests == 3
\* store calls that fail with a transport/store error in one behaviour
MaxFaults == 1

(* ------------------------- program constants -------------------------- *)
TitleMin == 5
TitleMax == 255
OptionMin == 1
OptionMax == 100
OptionsMin == 2
OptionsMax == 10

(* ------------------------------ values -------------------------------- *)
\* no session user (auth.uid() is null)
None == "none"
Users == {"u1", "u2"}
Identities == Users \cup {None}
\* end_date of an input: key absent (undefined), JSON null, or a timestamp
Absent == "absent"
Null == "null"
\* a string is modelled by a name and its length
Str(name, n) == [name |-> name, len |-> n]

Procs == 1..NumProcs

\* request bodies offered to the handlers (the last one fails validation)
BodyA == [title |-> Str("Lunch", TitleMin),
          options |-> <<Str("a", OptionMin), Str("b", OptionMax)>>,
          end_date |-> Absent]
BodyB == [title |-> Str("Venue", TitleMax),
          options |-> <<Str("c", 3), Str("d", 3), Str("e", 3),
                        Str("f", 3), Str("g", 3), Str("h", 3)>>,
          end_date |-> "d1"]
BodyBad == [title |-> Str("Bad", TitleMin - 1),
            options |-> <<Str("a", OptionMin)>>,
            end_date |-> Null]
Bodies == {BodyA, BodyB, BodyBad}

(* ----------------------------- validator ------------------------------ *)
\* createPollSchema.safeParse: the set of violated paths (all accumulate)
TitleIssues(b) ==
  IF b.title.len < TitleMin \/ b.title.len > TitleMax THEN {<<"title">>} ELSE {}

OptionsIssues(b) ==
  (IF Len(b.options) < OptionsMin \/ Len(b.options) > OptionsMax
     THEN {<<"options">>} ELSE {})
  \cup {<<"options", i>> : i \in {j \in 1..Len(b.options) :
          b.options[j].len < OptionMin \/ b.options[j].len > OptionMax}}

\* a JSON value of end_date that is not a string (a number, say)
NotAString == "<number>"

\* end_date: z.string().nullable().optional()
EndDateIssues(b) ==
  IF b.end_date = NotAString THEN {<<"end_date">>} ELSE {}

\* faulty variant of Violations: validation stops at the first violated field
Violations_firstOnly(b) ==
  IF TitleIssues(b) # {} THEN TitleIssues(b)
  ELSE IF OptionsIssues(b) # {} THEN OptionsIssues(b)
  ELSE EndDateIssues(b)

Violations(b) == TitleIssues(b) \cup OptionsIssues(b) \cup EndDateIssues(b)

safeParse(b) ==
  [success |-> Violations(b) = {}, data |-> b, issues |-> Violations(b)]

(* ------------------------------ state --------------------------------- *)
VARIABLES
  polls,           \* rows of public.polls
  poll_options,    \* rows of public.poll_options
  votes,           \* rows of public.votes
  poll_analytics,  \* rows of public.poll_analytics
  nextPollId,      \* next uuid of public.polls
  nextOptionId,    \* next uuid of public.poll_options
  req,             \* per process: the request it runs and where it stands
  nreq,            \* requests started so far
  nfault,          \* store calls failed so far
  applied          \* the store operation applied last to a drawn store state

store == <<polls, poll_options, votes, poll_analytics>>
vars == <<polls, poll_options, votes, poll_analytics, nextPollId, nextOptionId,
          req, nreq, nfault, applied>>

(* ---------------------- row-level policies (db.sql) ------------------- *)
\* faulty variant of PollSelectable: every row is visible to everyone
PollSelectable_any(row, uid) == TRUE

\* "Anyone can view public polls" / "Users can view their own polls"
PollSelectable(row, uid) == row.is_public \/ (uid # None /\ row.created_by = uid)
\* "Users can create polls"
PollInsertCheck(row, uid) == uid # None /\ row.created_by = uid
\* "Users can update their own polls"
PollUpdatable(row, uid) == uid # None /\ row.created_by = uid
\* "Users can delete their own polls"
PollDeletable(row, uid) == uid # None /\ row.created_by = uid
\* poll_options policies: all go through the owning poll
OptionSelectable(row, uid) ==
  \E p \in polls : p.id = row.poll_id /\ PollSelectable(p, uid)
OptionInsertCheck(row, uid) ==
  \E p \in polls : p.id = row.poll_id /\ uid # None /\ p.created_by = uid
OptionDeletable(row, uid) ==
  \E p \in polls : p.id = row.poll_id /\ uid # None /\ p.created_by = uid
\* votes select policies
VoteSelectable(row, uid) ==
  \E p \in polls : p.id = row.poll_id /\ PollSelectable(p, uid)
\* poll_analytics has row-level security enabled and policies for select and
\* update only: no policy admits an insert
AnalyticsInsertCheck(row, uid) == FALSE

(* ------------------------- constraints (db.sql) ----------------------- *)
\* poll_options: poll_id references polls(id), text and position not null
OptionRowValid(row) ==
  /\ "position" \in DOMAIN row
  /\ "text" \in DOMAIN row
  /\ \E p \in polls : p.id = row.poll_id
\* poll_analytics: poll_id references polls(id)
AnalyticsRowValid(row) == \E p \in polls : p.id = row.poll_id

\* faulty variant of OptionsAfterPollDelete: option rows outlive their poll
OptionsAfterPollDelete_kept(gone) == poll_options

\* faulty variant of VotesAfterOptionDelete: vote rows outlive their option
VotesAfterOptionDelete_kept(gone) == votes

\* on delete cascade: votes follow their option, everything follows its poll
VotesAfterOptionDelete(gone) == {v \in votes : v.option_id \notin {o.id : o \in gone}}
OptionsAfterPollDelete(gone) == {o \in poll_options : o.poll_id \notin {p.id : p \in gone}}
VotesAfterPollDelete(gone) ==
  {v \in votes : /\ v.poll_id \notin {p.id : p \in gone}
                 /\ v.option_id \notin {o.id : o \in poll_options
                                               \ OptionsAfterPollDelete(gone)}}
AnalyticsAfterPollDelete(gone) ==
  {a \in poll_analytics : a.poll_id \notin {p.id : p \in gone}}

(* ------------------------ request bookkeeping ------------------------- *)
NullResult == [ok |-> FALSE]
NoRow == [id |-> 0]
\* no operation applied yet
NoOp == [kind |-> "none"]
NoBody == [title |-> Str("", 0), options |-> <<>>, end_date |-> Absent]

\* kind:   the handler or repository method the process runs
\* user:   the session user of the request's store client (auth.uid()), who is
\*         also the userId argument of a direct createPoll call
\* id:     params.id, or the id of the poll the request has inserted
\* pc:     the store call the request issues next
\* status: the HTTP status answered (0 while running and for repository calls)
\* result: what the repository method returned
\* poll:   the local `poll` of createPoll / updatePoll / POST
\* calls:  history of the store calls issued: which, whether it returned an
\*         error, and whether that error was an injected store fault
\* owner:  history: created_by of the row with this id when getPollById ran
\* raced:  history: another process wrote to poll `id` while this one ran
IdleReq == [kind |-> "none", user |-> None, id |-> 0, body |-> NoBody,
            pc |-> "idle", status |-> 0, result |-> NullResult, poll |-> NoRow,
            calls |-> <<>>, owner |-> None, raced |-> FALSE]

Running(r) == r.pc \notin {"idle", "done"}

Call(op, err, fault) == [op |-> op, err |-> err, fault |-> fault]

\* the request of process p becomes r; when the step changed rows of poll pid,
\* the other running requests on that poll are marked as raced
Step(p, r, pid, changed) ==
  [q \in Procs |->
     IF q = p THEN r
     ELSE IF changed /\ Running(req[q]) /\ req[q].id = pid
          THEN [req[q] EXCEPT !.raced = TRUE]
          ELSE req[q]]

Finish(r, status, result, call) ==
  [r EXCEPT !.pc = "done", !.status = status, !.result = result,
            !.poll = NoRow, !.calls = Append(@, call)]

\* a store call may fail (connectivity and the like) while the budget lasts
FaultChoices == IF nfault < MaxFaults THEN {FALSE, TRUE} ELSE {FALSE}
Charge(fault) == nfault' = IF fault THEN nfault + 1 ELSE nfault

(* --------------------- conversions of the client ---------------------- *)
\* JSON.stringify drops a key whose value is undefined: on insert the column
\* takes its default (null)
InsertedValue(v) == IF v = Absent THEN Null ELSE v
\* on update the column of a dropped key keeps its value
UpdatedValue(v, old) == IF v = Absent THEN old ELSE v
\* `end_date || null`
OrNull(v) == IF v \in {Absent, Null, ""} THEN Null ELSE v

(* --------------------------- PollRepository --------------------------- *)
\* faulty variant of getPollById: the count is of voters, not of vote rows
getPollById_voters(id, uid, fault) ==
  LET rows == {p \in polls : p.id = id /\ PollSelectable(p, uid)} IN
  IF fault \/ rows = {} THEN NullResult
  ELSE [ok |-> TRUE,
        poll |-> CHOOSE r \in rows : TRUE,
        options |-> {o \in poll_options : o.poll_id = id /\ OptionSelectable(o, uid)},
        votes |-> Cardinality({v.user_id : v \in
                    {w \in votes : w.poll_id = id /\ VoteSelectable(w, uid)}})]

\* getPollById: select('*, poll_options(*), votes(count)').eq('id', id).single()
getPollById(id, uid, fault) ==
  LET rows == {p \in polls : p.id = id /\ PollSelectable(p, uid)} IN
  IF fault \/ rows = {} THEN NullResult
  ELSE [ok |-> TRUE,
        poll |-> CHOOSE r \in rows : TRUE,
        options |-> {o \in poll_options : o.poll_id = id /\ OptionSelectable(o, uid)},
        votes |-> Cardinality({v \in votes : v.poll_id = id /\ VoteSelectable(v, uid)})]

\* createPoll: the row handed to polls.insert
createPoll_pollData(body, userId) ==
  [title |-> body.title, created_by |-> userId,
   end_date |-> InsertedValue(body.end_date)]

\* createPoll: pollOptionsData, one row per option text
createPoll_pollOptionsData(pid, opts) ==
  [i \in 1..Len(opts) |-> [poll_id |-> pid, text |-> opts[i]]]

\* updatePoll: pollOptionsData, with the index as position
updatePoll_pollOptionsData(pid, opts) ==
  [i \in 1..Len(opts) |-> [poll_id |-> pid, text |-> opts[i], position |-> i - 1]]

\* faulty variant of updatePoll_pollRow: the update also resets the
\* visibility flag to its default
updatePoll_pollRow_reset(old, body) ==
  [old EXCEPT !.title = body.title,
              !.end_date = UpdatedValue(body.end_date, old.end_date),
              !.is_public = TRUE]

\* updatePoll: the row after polls.update({title, end_date})
updatePoll_pollRow(old, body) ==
  [old EXCEPT !.title = body.title,
              !.end_date = UpdatedValue(body.end_date, old.end_date)]

\* faulty variant of createPoll_return: optionsError is not looked at
createPoll_return_unchecked(poll, options, optionsError) ==
  [ok |-> TRUE, poll |-> poll, options |-> options]

\* createPoll: null when the option insert returned an error, else the poll
\* with the inserted options
createPoll_return(poll, options, optionsError) ==
  IF optionsError THEN NullResult
  ELSE [ok |-> TRUE, poll |-> poll, options |-> options]

\* updatePoll: null when the option insert returned an error, else the
\* updated poll with the inserted options
updatePoll_return(poll, options, optionsError) ==
  IF optionsError THEN NullResult
  ELSE [ok |-> TRUE, poll |-> poll, options |-> options]

\* createPoll: the analytics row
AnalyticsRow(pid) == [poll_id |-> pid, views |-> 0, shares |-> 0, unique_voters |-> 0]

(* --------------------------- route handlers --------------------------- *)
\* POST /api/polls: the row handed to polls.insert
POST_pollData(body, userId) ==
  [title |-> body.title, created_by |-> userId, end_date |-> OrNull(body.end_date)]

\* POST /api/polls: pollOptionsData
POST_pollOptionsData(pid, opts) ==
  [i \in 1..Len(opts) |-> [poll_id |-> pid, text |-> opts[i], position |-> i - 1]]

\* the status answered before any store call, 0 to go on
POST_entry(user, body) ==
  IF user = None THEN 401
  ELSE IF ~safeParse(body).success THEN 400
  ELSE 0

\* faulty variant of PUT_entry: the session user is not looked at
PUT_entry_open(user) == 0

PUT_entry(user) == IF user = None THEN 401 ELSE 0

DELETE_entry(user) == IF user = None THEN 401 ELSE 0

\* faulty variant of PUT_afterRead: created_by is not compared with the user
PUT_afterRead_anyUser(poll, user, body) ==
  IF ~poll.ok THEN 404
  ELSE IF ~safeParse(body).success THEN 400
  ELSE 0

\* faulty variant of PUT_afterRead: the body is not validated
PUT_afterRead_unvalidated(poll, user, body) ==
  IF ~poll.ok THEN 404
  ELSE IF poll.poll.created_by # user THEN 403
  ELSE 0

\* PUT after getPollById: 404, 403, 400, or 0 to go on to updatePoll
PUT_afterRead(poll, user, body) ==
  IF ~poll.ok THEN 404
  ELSE IF poll.poll.created_by # user THEN 403
  ELSE IF ~safeParse(body).success THEN 400
  ELSE 0

\* DELETE after getPollById: 404, 403, or 0 to go on to deletePoll
DELETE_afterRead(poll, user) ==
  IF ~poll.ok THEN 404
  ELSE IF poll.poll.created_by # user THEN 403
  ELSE 0

\* GET /api/polls/[id]
GET_response(poll) == IF ~poll.ok THEN 404 ELSE 200

\* PUT: NextResponse.json({ poll: updatedPoll }) whatever updatePoll returned
PUT_response(updatedPoll) == 200

\* DELETE: deletePoll throws on a store error, the catch block answers 500
DELETE_response(error) == IF error THEN 500 ELSE 200

\* POST: the answer after polls.insert / poll_options.insert returned
POST_afterInsert(error) == IF error THEN 500 ELSE 0

\* POST: the poll of the response body
POST_return(poll, options, optionsError) ==
  IF optionsError THEN NullResult
  ELSE [ok |-> TRUE, poll |-> poll, options |-> options]

\* faulty variant of POST_response: an analytics error fails the request
POST_response_strict(analyticsError) == IF analyticsError THEN 500 ELSE 200

\* POST: the answer after poll_analytics.insert, whose result is not read
POST_response(analyticsError) == 200

\* the status a finished request answers: handlers by the rules above,
\* repository methods called directly answer no status
Answer(kind, status) == IF kind \in {"createPoll", "deletePoll"} THEN 0 ELSE status

(* ------------------------------ store --------------------------------- *)
\* the polls row an insert stores: id, is_public and created_at take their
\* defaults; now() of a later insert is later, so created_at follows the id
StoredPoll(data, id) ==
  [id |-> id, title |-> data.title, created_by |-> data.created_by,
   is_public |-> TRUE, end_date |-> data.end_date, created_at |-> id]

\* the poll_options rows an insert stores: ids are fresh
StoredOptions(payload) ==
  {[id |-> nextOptionId + i - 1, poll_id |-> payload[i].poll_id,
    text |-> payload[i].text, position |-> payload[i].position] :
     i \in 1..Len(payload)}

\* one insert statement stores all of its rows or none
OptionsInsertError(payload, uid) ==
  \E i \in 1..Len(payload) :
     ~OptionRowValid(payload[i]) \/ ~OptionInsertCheck(payload[i], uid)

(* ------------------------------ actions ------------------------------- *)
Init ==
  /\ polls = {}
  /\ poll_options = {}
  /\ votes = {}
  /\ poll_analytics = {}
  /\ nextPollId = 1
  /\ nextOptionId = 1
  /\ req = [p \in Procs |-> IdleReq]
  /\ nreq = 0
  /\ nfault = 0
  /\ applied = NoOp

\* poll ids a request may name: every id handed out so far, and one that
\* matches no row
Targets == 0..(nextPollId - 1)

NewReq(kind, user, id, body, status) ==
  [IdleReq EXCEPT !.kind = kind, !.user = user, !.id = id, !.body = body,
                  !.status = status,
                  !.pc = IF status # 0 THEN "done"
                         ELSE IF kind \in {"POST", "createPoll"} THEN "insert_poll"
                         ELSE IF kind = "deletePoll" THEN "delete_poll"
                         ELSE "read"]

\* a request arrives and takes the first free slot: the handler runs up to
\* its first store call
Start(p) ==
  /\ ~Running(req[p])
  /\ \A q \in Procs : q < p => Running(req[q])
  /\ nreq < MaxRequests
  /\ nreq' = nreq + 1
  /\ \E kind \in {"POST", "GET", "PUT", "DELETE", "createPoll", "deletePoll"} :
       CASE kind = "POST" ->
              \E user \in Identities, body \in Bodies :
                req' = Step(p, NewReq(kind, user, 0, body, POST_entry(user, body)),
                            0, FALSE)
         [] kind = "createPoll" ->
              \E user \in Users, body \in Bodies \ {BodyBad} :
                req' = Step(p, NewReq(kind, user, 0, body, 0), 0, FALSE)
         [] kind = "GET" ->
              \E user \in Identities, id \in Targets :
                req' = Step(p, NewReq(kind, user, id, NoBody, 0), 0, FALSE)
         [] kind = "PUT" ->
              \E user \in Identities, id \in Targets, body \in Bodies :
                req' = Step(p, NewReq(kind, user, id, body, PUT_entry(user)),
                            0, FALSE)
         [] kind = "DELETE" ->
              \E user \in Identities, id \in Targets :
                req' = Step(p, NewReq(kind, user, id, NoBody, DELETE_entry(user)),
                            0, FALSE)
         [] kind = "deletePoll" ->
              \E user \in Identities, id \in Targets :
                req' = Step(p, NewReq(kind, user, id, NoBody, 0), 0, FALSE)
  /\ UNCHANGED <<applied, store, nextPollId, nextOptionId, nfault>>

\* polls.insert(...).select().single() of createPoll and of POST
InsertPoll(p) ==
  LET r == req[p] IN
  /\ r.pc = "insert_poll"
  /\ \E fault \in FaultChoices :
       LET data == IF r.kind = "POST" THEN POST_pollData(r.body, r.user)
                   ELSE createPoll_pollData(r.body, r.user)
           row == StoredPoll(data, nextPollId)
           error == fault \/ ~PollInsertCheck(row, r.user)
           call == Call("polls.insert", error, fault)
       IN
       /\ Charge(fault)
       /\ IF error
            THEN /\ req' = Step(p, Finish(r, Answer(r.kind, POST_afterInsert(TRUE)),
                                          NullResult, call), 0, FALSE)
                 /\ UNCHANGED <<polls, nextPollId>>
            ELSE /\ polls' = polls \cup {row}
                 /\ nextPollId' = nextPollId + 1
                 /\ req' = Step(p, [r EXCEPT !.pc = "insert_options", !.id = row.id,
                                             !.poll = row,
                                             !.calls = Append(@, call)],
                                row.id, TRUE)
  /\ UNCHANGED <<applied, poll_options, votes, poll_analytics, nextOptionId, nreq>>

\* poll_options.insert(pollOptionsData).select() of createPoll, POST and updatePoll
InsertOptions(p) ==
  LET r == req[p] IN
  /\ r.pc = "insert_options"
  /\ \E fault \in FaultChoices :
       LET payload == CASE r.kind = "POST" ->
                             POST_pollOptionsData(r.poll.id, r.body.options)
                        [] r.kind = "createPoll" ->
                             createPoll_pollOptionsData(r.poll.id, r.body.options)
                        [] r.kind = "PUT" ->
                             updatePoll_pollOptionsData(r.id, r.body.options)
           error == fault \/ OptionsInsertError(payload, r.user)
           call == Call("poll_options.insert", error, fault)
           rows == IF error THEN {} ELSE StoredOptions(payload)
           result == CASE r.kind = "POST" -> POST_return(r.poll, rows, error)
                       [] r.kind = "createPoll" -> createPoll_return(r.poll, rows, error)
                       [] r.kind = "PUT" -> updatePoll_return(r.poll, rows, error)
       IN
       /\ Charge(fault)
       /\ poll_options' = poll_options \cup rows
       /\ nextOptionId' = nextOptionId + Cardinality(rows)
       /\ req' = Step(p,
            IF r.kind = "PUT"
              THEN Finish(r, PUT_response(result), result, call)
            ELSE IF error
              THEN Finish(r, Answer(r.kind, POST_afterInsert(TRUE)), result, call)
            ELSE [r EXCEPT !.pc = "insert_analytics", !.result = result,
                           !.calls = Append(@, call)],
            r.id, ~error)
  /\ UNCHANGED <<applied, polls, votes, poll_analytics, nextPollId, nreq>>

\* poll_analytics.insert(...) of createPoll and of POST: the result is not read
InsertAnalytics(p) ==
  LET r == req[p] IN
  /\ r.pc = "insert_analytics"
  /\ \E fault \in FaultChoices :
       LET row == AnalyticsRow(r.poll.id)
           error == fault \/ ~AnalyticsRowValid(row) \/ ~AnalyticsInsertCheck(row, r.user)
           call == Call("poll_analytics.insert", error, fault)
       IN
       /\ Charge(fault)
       /\ poll_analytics' = IF error THEN poll_analytics ELSE poll_analytics \cup {row}
       /\ req' = Step(p, Finish(r, Answer(r.kind, POST_response(error)), r.result, call),
                      r.id, ~error)
  /\ UNCHANGED <<applied, polls, poll_options, votes, nextPollId, nextOptionId, nreq>>

\* getPollById of GET, and of PUT and DELETE before they authorize
ReadPoll(p) ==
  LET r == req[p] IN
  /\ r.pc = "read"
  /\ \E fault \in FaultChoices :
       LET poll == getPollById(r.id, r.user, fault)
           call == Call("getPollById", fault \/ ~poll.ok, fault)
           rows == {x \in polls : x.id = r.id}
           seen == [r EXCEPT !.owner = IF rows = {} THEN None
                                       ELSE (CHOOSE x \in rows : TRUE).created_by]
           status == CASE r.kind = "GET" -> GET_response(poll)
                       [] r.kind = "PUT" -> PUT_afterRead(poll, r.user, r.body)
                       [] r.kind = "DELETE" -> DELETE_afterRead(poll, r.user)
       IN
       /\ Charge(fault)
       /\ req' = Step(p,
            IF status # 0
              THEN Finish(seen, status, IF r.kind = "GET" THEN poll ELSE NullResult, call)
              ELSE [seen EXCEPT !.pc = IF r.kind = "PUT" THEN "update_poll"
                                       ELSE "delete_poll",
                                !.calls = Append(@, call)],
            r.id, FALSE)
  /\ UNCHANGED <<applied, store, nextPollId, nextOptionId, nreq>>

\* faulty variant of UpdatePollRow: updateError is not looked at and the
\* option delete is issued all the same
UpdatePollRow_goesOn(p) ==
  LET r == req[p] IN
  /\ r.pc = "update_poll"
  /\ \E fault \in FaultChoices :
       LET rows == {x \in polls : x.id = r.id /\ PollUpdatable(x, r.user)
                                              /\ PollSelectable(x, r.user)}
           error == fault \/ rows = {}
           call == Call("polls.update", error, fault)
           old == CHOOSE x \in rows : TRUE
           new == updatePoll_pollRow(old, r.body)
       IN
       /\ Charge(fault)
       /\ polls' = IF error THEN polls ELSE (polls \ {old}) \cup {new}
       /\ req' = Step(p, [r EXCEPT !.pc = "delete_options",
                                   !.poll = IF error THEN NoRow ELSE new,
                                   !.calls = Append(@, call)],
                      r.id, ~error)
  /\ UNCHANGED <<applied, poll_options, votes, poll_analytics, nextPollId, nextOptionId, nreq>>

\* updatePoll: polls.update({title, end_date}).eq('id', id).select().single()
UpdatePollRow(p) ==
  LET r == req[p] IN
  /\ r.pc = "update_poll"
  /\ \E fault \in FaultChoices :
       LET rows == {x \in polls : x.id = r.id /\ PollUpdatable(x, r.user)
                                              /\ PollSelectable(x, r.user)}
           error == fault \/ rows = {}
           call == Call("polls.update", error, fault)
           old == CHOOSE x \in rows : TRUE
           new == updatePoll_pollRow(old, r.body)
       IN
       /\ Charge(fault)
       /\ IF error
            THEN /\ req' = Step(p, Finish(r, PUT_response(NullResult), NullResult, call),
                                0, FALSE)
                 /\ UNCHANGED polls
            ELSE /\ polls' = (polls \ {old}) \cup {new}
                 /\ req' = Step(p, [r EXCEPT !.pc = "delete_options", !.poll = new,
                                             !.calls = Append(@, call)],
                                r.id, TRUE)
  /\ UNCHANGED <<applied, poll_options, votes, poll_analytics, nextPollId, nextOptionId, nreq>>

\* updatePoll: poll_options.delete().eq('poll_id', id)
DeleteOptions(p) ==
  LET r == req[p] IN
  /\ r.pc = "delete_options"
  /\ \E fault \in FaultChoices :
       LET gone == {o \in poll_options : o.poll_id = r.id /\ OptionDeletable(o, r.user)}
           call == Call("poll_options.delete", fault, fault)
       IN
       /\ Charge(fault)
       /\ IF fault
            THEN /\ req' = Step(p, Finish(r, PUT_response(NullResult), NullResult, call),
                                0, FALSE)
                 /\ UNCHANGED <<poll_options, votes>>
            ELSE /\ poll_options' = poll_options \ gone
                 /\ votes' = VotesAfterOptionDelete(gone)
                 /\ req' = Step(p, [r EXCEPT !.pc = "insert_options",
                                             !.calls = Append(@, call)],
                                r.id, gone # {})
  /\ UNCHANGED <<applied, polls, poll_analytics, nextPollId, nextOptionId, nreq>>

\* deletePoll: polls.delete().eq('id', id), throwing on a store error
DeletePoll(p) ==
  LET r == req[p] IN
  /\ r.pc = "delete_poll"
  /\ \E fault \in FaultChoices :
       LET gone == {x \in polls : x.id = r.id /\ PollDeletable(x, r.user)}
           call == Call("polls.delete", fault, fault)
       IN
       /\ Charge(fault)
       /\ IF fault
            THEN UNCHANGED store
            ELSE /\ polls' = polls \ gone
                 /\ poll_options' = OptionsAfterPollDelete(gone)
                 /\ votes' = VotesAfterPollDelete(gone)
                 /\ poll_analytics' = AnalyticsAfterPollDelete(gone)
       /\ req' = Step(p, Finish(r, Answer(r.kind, DELETE_response(fault)),
                                 NullResult, call),
                      r.id, ~fault /\ gone # {})
  /\ UNCHANGED <<applied, nextPollId, nextOptionId, nreq>>

Next ==
  \E p \in Procs :
     \/ Start(p)
     \/ InsertPoll(p)
     \/ InsertOptions(p)
     \/ InsertAnalytics(p)
     \/ ReadPoll(p)
     \/ UpdatePollRow(p)
     \/ DeleteOptions(p)
     \/ DeletePoll(p)

Spec == Init /\ [][Next]_vars

(* ================= reads and votes on drawn store states ============== *)
(* The list reads of the repository and the vote insert of the store     *)
(* (policy, constraints and trigger of db.sql) are applied to store      *)
(* states drawn from bounded sets: rows that any client of the store may *)
(* have written, private polls and vote rows included. One operation is  *)
(* applied to each drawn store.                                          *)
\* polls of a drawn store
MaxPolls == 3
\* vote rows of a drawn store
MaxVotes == 2

\* instants: a timestamp "d1" is instant 1; now() ranges over Times
Instant(d) == IF d = "d1" THEN 1 ELSE 0
Times == 0..2

\* faulty variant of OrderByCreatedAtDesc: oldest first
OrderByCreatedAtAsc(rows) ==
  CHOOSE s \in [1..Cardinality(rows) -> rows] :
    \A i, j \in 1..Cardinality(rows) :
       i < j => (s[i] # s[j] /\ s[i].created_at <= s[j].created_at)

\* .order('created_at', { ascending: false }); created_at is distinct in
\* every store state of this model, so the order is determined
OrderByCreatedAtDesc(rows) ==
  CHOOSE s \in [1..Cardinality(rows) -> rows] :
    \A i, j \in 1..Cardinality(rows) :
       i < j => (s[i] # s[j] /\ s[i].created_at >= s[j].created_at)

\* getAllPolls: select('*, poll_options(*), votes(count)').order(created_at desc)
getAllPolls(uid, fault) ==
  LET data == OrderByCreatedAtDesc({p \in polls : PollSelectable(p, uid)}) IN
  IF fault THEN <<>>
  ELSE [i \in 1..Len(data) |->
          [poll |-> data[i],
           options |-> {o \in poll_options :
                          o.poll_id = data[i].id /\ OptionSelectable(o, uid)},
           votes |-> Cardinality({v \in votes :
                          v.poll_id = data[i].id /\ VoteSelectable(v, uid)})]]

\* faulty variant of getUserPolls: the vote count is left out
getUserPolls_uncounted(userId, uid, fault) ==
  LET data == OrderByCreatedAtDesc({p \in polls : p.created_by = userId
                                                  /\ PollSelectable(p, uid)}) IN
  IF fault THEN <<>>
  ELSE [i \in 1..Len(data) |->
          [poll |-> data[i],
           options |-> {o \in poll_options :
                          o.poll_id = data[i].id /\ OptionSelectable(o, uid)},
           votes |-> 0]]

\* getUserPolls: the same select with .eq('created_by', userId)
getUserPolls(userId, uid, fault) ==
  LET data == OrderByCreatedAtDesc({p \in polls : p.created_by = userId
                                                  /\ PollSelectable(p, uid)}) IN
  IF fault THEN <<>>
  ELSE [i \in 1..Len(data) |->
          [poll |-> data[i],
           options |-> {o \in poll_options :
                          o.poll_id = data[i].id /\ OptionSelectable(o, uid)},
           votes |-> Cardinality({v \in votes :
                          v.poll_id = data[i].id /\ VoteSelectable(v, uid)})]]

\* faulty variant of VoteInsertCheck: end_date is not looked at
VoteInsertCheck_anyTime(row, uid, now) ==
  /\ \E p \in polls : p.id = row.poll_id /\ p.is_public
  /\ uid # None
  /\ row.user_id = uid

\* "Users can vote on public polls": with check of an insert into votes
VoteInsertCheck(row, uid, now) ==
  /\ \E p \in polls : /\ p.id = row.poll_id
                      /\ p.is_public
                      /\ (p.end_date = Null \/ Instant(p.end_date) > now)
  /\ uid # None
  /\ row.user_id = uid

\* votes: unique(user_id, option_id)
VoteUnique(row) ==
  ~\E v \in votes : v.user_id = row.user_id /\ v.option_id = row.option_id

\* votes: poll_id references polls(id), option_id references poll_options(id)
VoteRowValid(row) ==
  /\ \E p \in polls : p.id = row.poll_id
  /\ \E o \in poll_options : o.id = row.option_id

\* the analytics rows of a poll
AnalyticsOf(id) == {a \in poll_analytics : a.poll_id = id}

\* the unique and primary-key constraints of poll_analytics: the key id only
AnalyticsUniqueColumns == {<<"id">>}

\* update_poll_analytics_on_vote, run after `new` is in votes (rows): an
\* insert ... on conflict (poll_id) do update. The conflict target must name
\* a unique constraint of the table, or the statement raises; the trigger
\* runs as the voting user, so the insert policy of poll_analytics applies
\* to the proposed row.
update_poll_analytics_on_vote(new, rows, uid) ==
  LET proposed == [AnalyticsRow(new.poll_id) EXCEPT !.unique_voters = 1]
      voters == Cardinality({v.user_id : v \in {w \in rows : w.poll_id = new.poll_id}})
  IN
  IF <<"poll_id">> \notin AnalyticsUniqueColumns \/ ~AnalyticsInsertCheck(proposed, uid)
    THEN [error |-> TRUE, rows |-> poll_analytics]
  ELSE IF AnalyticsOf(new.poll_id) = {}
    THEN [error |-> FALSE, rows |-> poll_analytics \cup {proposed}]
  ELSE [error |-> FALSE,
        rows |-> {IF a.poll_id = new.poll_id
                    THEN [a EXCEPT !.unique_voters = voters] ELSE a :
                  a \in poll_analytics}]

\* the row an insert into votes stores: a fresh id, created_at = now()
StoredVote(row, now) ==
  [id |-> CHOOSE k \in 1..(Cardinality(votes) + 1) : \A v \in votes : v.id # k,
   poll_id |-> row.poll_id, option_id |-> row.option_id,
   user_id |-> row.user_id, created_at |-> now]

\* the error an insert into votes raises, "none" when it stores the row: the
\* policy is checked before the row is stored, the unique index when it is
\* stored, the foreign keys and then the analytics trigger after it
VoteInsertError(row, uid, now) ==
  IF ~VoteInsertCheck(row, uid, now) THEN "policy"
  ELSE IF ~VoteUnique(row) THEN "unique"
  ELSE IF ~VoteRowValid(row) THEN "foreign_key"
  ELSE IF update_poll_analytics_on_vote(StoredVote(row, now),
            votes \cup {StoredVote(row, now)}, uid).error THEN "trigger"
  ELSE "none"

\* drawn rows: poll i has options 2i-1 and 2i; poll 1 ends at "d1", the
\* others never; created_at is a permutation of the ids
Perms(n) == {f \in [1..n -> 1..n] : \A i, j \in 1..n : i # j => f[i] # f[j]}

SeedPoll(i, by, pub, at) ==
  [id |-> i, title |-> Str("Poll", TitleMin), created_by |-> by, is_public |-> pub,
   end_date |-> IF i = 1 THEN "d1" ELSE Null, created_at |-> at]

SeedOptions(n) ==
  {[id |-> 2 * (i - 1) + k, poll_id |-> i,
    text |-> Str(IF k = 1 THEN "x" ELSE "y", OptionMin), position |-> k - 1] :
     i \in 1..n, k \in 1..2}

\* options that drawn vote rows and vote inserts name: both options of
\* poll 1 and the first option of poll 2
VotedOptions == 1..3
PollOfOption(o) == (o + 1) \div 2
\* polls that vote inserts name: for every option of VotedOptions its own poll
\* and another one
VotedPolls == 1..2

SeedVotes(n) ==
  {[id |-> 2 * (o - 1) + (IF u = "u1" THEN 1 ELSE 2), poll_id |-> PollOfOption(o),
    option_id |-> o, user_id |-> u, created_at |-> 0] :
     o \in {x \in VotedOptions : PollOfOption(x) <= n}, u \in Users}

\* a drawn store: up to MaxPolls polls of any creators, at most one of them
\* private, up to MaxVotes vote rows, and an analytics row for poll 2 only
StoreInit ==
  /\ \E n \in 0..MaxPolls :
       \E by \in [1..n -> Users], private \in SUBSET (1..n), at \in Perms(n),
          vs \in SUBSET SeedVotes(n) :
          /\ Cardinality(private) <= 1
          /\ Cardinality(vs) <= MaxVotes
          /\ polls = {SeedPoll(i, by[i], i \notin private, at[i]) : i \in 1..n}
          /\ poll_options = SeedOptions(n)
          /\ votes = vs
          /\ poll_analytics = {AnalyticsRow(i) : i \in {2} \cap (1..n)}
  /\ nextPollId = MaxPolls + 1
  /\ nextOptionId = 2 * MaxPolls + 1
  /\ req = [p \in Procs |-> IdleReq]
  /\ nreq = 0
  /\ nfault = 0
  /\ applied = NoOp

\* a client with session user uid calls getPollById(id)
ApplyGetPollById ==
  /\ applied = NoOp
  /\ \E uid \in Identities, id \in 0..MaxPolls :
       applied' = [kind |-> "getPollById", uid |-> uid, id |-> id, fault |-> FALSE,
                   out |-> getPollById(id, uid, FALSE)]
  /\ UNCHANGED <<store, nextPollId, nextOptionId, req, nreq, nfault>>

\* a client with session user uid calls getAllPolls()
ApplyGetAllPolls ==
  /\ applied = NoOp
  /\ \E uid \in Identities, fault \in BOOLEAN :
       applied' = [kind |-> "getAllPolls", uid |-> uid, fault |-> fault,
                   out |-> getAllPolls(uid, fault)]
  /\ UNCHANGED <<store, nextPollId, nextOptionId, req, nreq, nfault>>

\* a client with session user uid calls getUserPolls(userId)
ApplyGetUserPolls ==
  /\ applied = NoOp
  /\ \E uid \in Identities, userId \in Users, fault \in BOOLEAN :
       applied' = [kind |-> "getUserPolls", uid |-> uid, userId |-> userId,
                   fault |-> fault, out |-> getUserPolls(userId, uid, fault)]
  /\ UNCHANGED <<store, nextPollId, nextOptionId, req, nreq, nfault>>

\* a client with session user uid inserts a vote row at instant now: the row
\* is stored and the trigger's upsert applied, or the statement raises and
\* changes nothing
InsertVote ==
  /\ applied = NoOp
  /\ \E uid \in Identities, user_id \in Users, o \in VotedOptions,
        pid \in VotedPolls, now \in Times :
       LET row == [poll_id |-> pid, option_id |-> o, user_id |-> user_id]
           error == VoteInsertError(row, uid, now)
           new == StoredVote(row, now)
       IN
       /\ applied' = [kind |-> "vote", uid |-> uid, row |-> row, now |-> now,
                      error |-> error]
       /\ votes' = IF error = "none" THEN votes \cup {new} ELSE votes
       /\ poll_analytics' =
            IF error = "none"
              THEN update_poll_analytics_on_vote(new, votes \cup {new}, uid).rows
              ELSE poll_analytics
  /\ UNCHANGED <<polls, poll_options, nextPollId, nextOptionId, req, nreq, nfault>>

StoreNext ==
  \/ ApplyGetPollById
  \/ ApplyGetAllPolls
  \/ ApplyGetUserPolls
  \/ InsertVote

StoreSpec == StoreInit /\ [][StoreNext]_vars

(* ====================== writes on drawn store states ================== *)
(* updatePoll, deletePoll and the vote statements of a client are applied *)
(* to drawn stores that hold votes: every drawn vote names an option of   *)
(* its own poll, and the analytics rows carry the exact number of         *)
(* distinct voters. One operation is applied to each drawn store; an      *)
(* updatePoll runs its store calls without another request in between.    *)
\* store call of updatePoll that meets a store fault (0: none)
FailAt == 0..3

\* policy "Users can delete their own votes"
VoteDeletable(row, uid) == row.user_id = uid

\* count(distinct user_id) of the votes of poll id among rows
DistinctVoters(rows, id) == Cardinality({v.user_id : v \in {w \in rows : w.poll_id = id}})

\* a drawn store with votes: polls 1 and 2 carry an analytics row whose
\* counter is exact
WriteInit ==
  /\ \E n \in 0..MaxPolls :
       \E by \in [1..n -> Users], private \in SUBSET (1..n),
          vs \in SUBSET SeedVotes(n) :
          /\ Cardinality(private) <= 1
          /\ Cardinality(vs) <= MaxVotes
          /\ polls = {SeedPoll(i, by[i], i \notin private, i) : i \in 1..n}
          /\ poll_options = SeedOptions(n)
          /\ votes = vs
          /\ poll_analytics =
               {[AnalyticsRow(i) EXCEPT !.unique_voters = DistinctVoters(vs, i)] :
                  i \in VotedPolls \cap (1..n)}
  /\ nextPollId = MaxPolls + 1
  /\ nextOptionId = 2 * MaxPolls + 1
  /\ req = [p \in Procs |-> IdleReq]
  /\ nreq = 0
  /\ nfault = 0
  /\ applied = NoOp

\* updatePoll(id, data) on a client with session user uid, run from the
\* current store with no other request in between: what it returns and the
\* tables it leaves. The policies are evaluated on the polls of the start;
\* the update changes neither created_by nor is_public, which is all they read.
updatePoll(id, data, uid, failAt) ==
  LET rows == {x \in polls : x.id = id /\ PollUpdatable(x, uid)
                                       /\ PollSelectable(x, uid)}
      pollError == failAt = 1 \/ rows = {}
      old == CHOOSE x \in rows : TRUE
      poll == updatePoll_pollRow(old, data)
      updated == (polls \ {old}) \cup {poll}
      gone == {o \in poll_options : o.poll_id = id /\ OptionDeletable(o, uid)}
      deleteError == failAt = 2
      pollOptionsData == updatePoll_pollOptionsData(id, data.options)
      optionsError == failAt = 3 \/ OptionsInsertError(pollOptionsData, uid)
      options == IF optionsError THEN {} ELSE StoredOptions(pollOptionsData)
  IN
  IF pollError
    THEN [out |-> NullResult, calls |-> 1, polls |-> polls,
          poll_options |-> poll_options, votes |-> votes]
  ELSE IF deleteError
    THEN [out |-> NullResult, calls |-> 2, polls |-> updated,
          poll_options |-> poll_options, votes |-> votes]
  ELSE [out |-> updatePoll_return(poll, options, optionsError), calls |-> 3,
        polls |-> updated,
        poll_options |-> (poll_options \ gone) \cup options,
        votes |-> VotesAfterOptionDelete(gone)]

\* a client with session user uid calls updatePoll(id, data); `had` keeps the
\* number of vote rows of the poll before the call
ApplyUpdatePoll ==
  /\ applied = NoOp
  /\ \E uid \in Identities, id \in 0..MaxPolls, data \in Bodies \ {BodyBad},
        failAt \in FailAt :
       LET run == updatePoll(id, data, uid, failAt) IN
       /\ applied' = [kind |-> "updatePoll", uid |-> uid, id |-> id, data |-> data,
                      failAt |-> failAt, out |-> run.out, calls |-> run.calls,
                      had |-> Cardinality({v \in votes : v.poll_id = id})]
       /\ polls' = run.polls
       /\ poll_options' = run.poll_options
       /\ votes' = run.votes
       /\ nextOptionId' = nextOptionId + Cardinality(run.poll_options \ poll_options)
  /\ UNCHANGED <<poll_analytics, nextPollId, req, nreq, nfault>>

\* a client with session user uid calls deletePoll(id)
ApplyDeletePoll ==
  /\ applied = NoOp
  /\ \E uid \in Identities, id \in 0..MaxPolls, fault \in BOOLEAN :
       LET gone == {x \in polls : x.id = id /\ PollDeletable(x, uid)} IN
       /\ applied' = [kind |-> "deletePoll", uid |-> uid, id |-> id, fault |-> fault]
       /\ IF fault
            THEN UNCHANGED store
            ELSE /\ polls' = polls \ gone
                 /\ poll_options' = OptionsAfterPollDelete(gone)
                 /\ votes' = VotesAfterPollDelete(gone)
                 /\ poll_analytics' = AnalyticsAfterPollDelete(gone)
  /\ UNCHANGED <<nextPollId, nextOptionId, req, nreq, nfault>>

\* a client with session user uid deletes the vote row with the given id:
\* the row goes when the policies let this client see and delete it
DeleteVote ==
  /\ applied = NoOp
  /\ \E uid \in Identities, id \in {v.id : v \in votes} :
       LET gone == {v \in votes : v.id = id /\ VoteDeletable(v, uid)
                                           /\ VoteSelectable(v, uid)} IN
       /\ applied' = [kind |-> "deleteVote", uid |-> uid, id |-> id,
                      deleted |-> gone # {}]
       /\ votes' = votes \ gone
  /\ UNCHANGED <<polls, poll_options, poll_analytics, nextPollId, nextOptionId,
                 req, nreq, nfault>>

WriteNext ==
  \/ ApplyUpdatePoll
  \/ ApplyDeletePoll
  \/ DeleteVote
  \/ InsertVote

WriteSpec == WriteInit /\ [][WriteNext]_vars

(* ------------- the validator applied to boundary inputs --------------- *)
\* lengths and counts on both sides of every limit of createPollSchema
TitleLens == {TitleMin - 1, TitleMin, TitleMax, TitleMax + 1}
OptionLens == {OptionMin - 1, OptionMin, OptionMax, OptionMax + 1}
OptionCounts == {OptionsMin - 1, OptionsMin, OptionsMax, OptionsMax + 1}
EndDates == {Absent, Null, "d1", NotAString}

\* n options of length OptionMin, except that option k has length l
OptionList(n, k, l) ==
  [i \in 1..n |-> Str("o", IF i = k THEN l ELSE OptionMin)]

ValidatorInputs ==
  {[title |-> Str("t", tl), options |-> OptionList(n, k, l), end_date |-> e] :
     tl \in TitleLens, n \in OptionCounts, k \in {1, OptionsMin},
     l \in OptionLens, e \in EndDates}

ValidatorInit ==
  /\ polls = {} /\ poll_options = {} /\ votes = {} /\ poll_analytics = {}
  /\ nextPollId = 1 /\ nextOptionId = 1
  /\ req = [p \in Procs |-> IdleReq]
  /\ nreq = 0 /\ nfault = 0
  /\ applied = NoOp

\* createPollSchema.safeParse(body)
ApplySafeParse ==
  /\ applied = NoOp
  /\ \E b \in ValidatorInputs :
       applied' = [kind |-> "safeParse", body |-> b, out |-> safeParse(b)]
  /\ UNCHANGED <<polls, poll_options, votes, poll_analytics, nextPollId,
                 nextOptionId, req, nreq, nfault>>

ValidatorNext == ApplySafeParse

ValidatorSpec == ValidatorInit /\ [][ValidatorNext]_vars

(* ======================== checked properties ========================== *)
Done(r) == r.pc = "done"
Ops(r) == [i \in 1..Len(r.calls) |-> r.calls[i].op]
NoFault(r) == \A i \in 1..Len(r.calls) : ~r.calls[i].fault
Valid(b) == Violations(b) = {}
RowsOf(id) == {o \in poll_options : o.poll_id = id}
\* the (text, position) pairs of a set of option rows
Placed(rows) == {[text |-> o.text, position |-> o.position] : o \in rows}
\* the (text, position) pairs of an input's options, position = array index
Wanted(opts) == {[text |-> opts[i], position |-> i - 1] : i \in 1..Len(opts)}
\* process p took a step of its own (being marked as raced is not one)
Moved(p) ==
  <<req[p].kind, req[p].user, req[p].id, req[p].body, req[p].pc, req[p].calls>>
    # <<req'[p].kind, req'[p].user, req'[p].id, req'[p].body, req'[p].pc,
        req'[p].calls>>

\* C1: round trip. Every createPoll with a valid input by an authenticated
\* user that met no store fault returns the poll, and getPollById of the new
\* id then gives the input's title and end_date, the input's option texts in
\* input order, and a vote count of 0.
C1_RoundTrip ==
  \A p \in Procs :
     LET r == req[p] IN
     (Done(r) /\ r.kind = "createPoll" /\ r.user # None /\ Valid(r.body)
        /\ NoFault(r) /\ ~r.raced)
     => /\ r.result.ok
        /\ LET got == getPollById(r.result.poll.id, r.user, FALSE) IN
           /\ got.ok
           /\ got.poll.title = r.body.title
           /\ got.poll.end_date = InsertedValue(r.body.end_date)
           /\ Cardinality(got.options) = Len(r.body.options)
           /\ {o.text : o \in got.options} = {r.body.options[i] : i \in 1..Len(r.body.options)}
           /\ got.options = r.result.options
           /\ got.votes = 0

\* what getPollById gives for the poll of request r, read by r's own client
Reread(r) == getPollById(r.id, r.user, FALSE)

\* the update that request r asked for is what getPollById now returns
Replaced(r) ==
  LET got == Reread(r) IN
  /\ got.ok
  /\ got.poll.title = r.body.title
  /\ got.poll.end_date = InsertedValue(r.body.end_date)
  /\ Placed(got.options) = Wanted(r.body.options)
  /\ Cardinality(got.options) = Len(r.body.options)
  /\ got.options = r.result.options
  /\ RowsOf(r.id) = r.result.options

\* C2: update replaces options. When updatePoll returns the updated poll and
\* no other process wrote to that poll meanwhile, getPollById returns exactly
\* the input's options at positions 0..k, the input's title and end_date, and
\* no option row of the prior version.
C2_UpdateReplaces ==
  [][\A p \in Procs :
       (req[p].kind = "PUT" /\ req[p].pc = "insert_options" /\ Done(req'[p])
          /\ req'[p].result.ok /\ ~req'[p].raced
          /\ \A q \in Procs \ {p} : ~Running(req[q]))
       => Replaced(req[p])']_vars

\* the part of it the code keeps: options, positions and title
ReplacedOptions(r) ==
  LET got == Reread(r) IN
  /\ got.ok
  /\ got.poll.title = r.body.title
  /\ Placed(got.options) = Wanted(r.body.options)
  /\ Cardinality(got.options) = Len(r.body.options)
  /\ got.options = r.result.options
  /\ RowsOf(r.id) = r.result.options

UpdateReplacesOptions ==
  [][\A p \in Procs :
       (req[p].kind = "PUT" /\ req[p].pc = "insert_options" /\ Done(req'[p])
          /\ req'[p].result.ok /\ ~req'[p].raced)
       => ReplacedOptions(req[p])']_vars

\* a PUT or DELETE by a signed-in user who is not the creator of the poll
\* that params.id named when the handler read it
NotOwner(r) ==
  /\ r.kind \in {"PUT", "DELETE"}
  /\ r.user # None
  /\ r.owner \notin {None, r.user}

ReadFailed(r) == \E i \in 1..Len(r.calls) : r.calls[i].op = "getPollById" /\ r.calls[i].fault

Mutating(r) == r.kind \in {"POST", "PUT", "DELETE"}

\* C4: authentication first. A POST, PUT or DELETE without a session user is
\* answered 401 at once: it issues no store call (so no repository
\* operation), and the step that answers it changes no row, whatever its
\* body and whether or not the poll exists.
C4_Unauthenticated401 ==
  [][\A p \in Procs :
       (Moved(p) /\ Mutating(req'[p]) /\ req'[p].user = None)
       => /\ Done(req'[p])
          /\ req'[p].status = 401
          /\ req'[p].calls = <<>>
          /\ store' = store]_vars

C4_Witness ==
  /\ \E p \in Procs :
       /\ Done(req[p]) /\ req[p].kind = "PUT" /\ req[p].user = None
       /\ req[p].status = 401 /\ Valid(req[p].body)
       /\ \E x \in polls : x.id = req[p].id
  /\ \E p \in Procs :
       /\ Done(req[p]) /\ req[p].kind = "POST" /\ req[p].user = None
       /\ req[p].status = 401

\* a POST or PUT by a signed-in user whose body fails the validator
Invalid(r) == r.kind \in {"POST", "PUT"} /\ r.user # None /\ ~Valid(r.body)

\* C5 as stated: validation errors never reach the repository. A POST or PUT
\* by a signed-in user with an invalid body is answered 400 and invokes no
\* repository operation, neither a read nor a write.
C5_Invalid400NoCall ==
  \A p \in Procs :
     (Done(req[p]) /\ Invalid(req[p]))
     => /\ req[p].status = 400
        /\ req[p].calls = <<>>

\* C5, amended: POST answers 400 without any store call. PUT validates after
\* it has read the poll and checked the owner: it answers 404 when that read
\* gave no poll, 403 when the user is not the creator and 400 otherwise, its
\* only repository operation is the getPollById read (updatePoll is never
\* invoked) and no step of it changes a row.
C5_InvalidNeverWritten ==
  [][\A p \in Procs :
       (Moved(p) /\ Invalid(req'[p]))
       => /\ store' = store
          /\ Done(req'[p]) =>
               IF req'[p].kind = "POST"
                 THEN req'[p].status = 400 /\ req'[p].calls = <<>>
                 ELSE /\ Ops(req'[p]) = <<"getPollById">>
                      /\ req'[p].status =
                           IF req'[p].calls[1].err THEN 404
                           ELSE IF req'[p].owner # req'[p].user THEN 403
                           ELSE 400]_vars

C5_Witness ==
  \E p \in Procs :
     /\ Done(req[p]) /\ Invalid(req[p]) /\ req[p].kind = "PUT"
     /\ req[p].status = 400
     /\ Ops(req[p]) = <<"getPollById">>

\* some store call of the request returned an error after the ownership read
WriteFailed(r) ==
  \E i \in 1..Len(r.calls) : r.calls[i].op # "getPollById" /\ r.calls[i].err

\* C6: store failures of mutating endpoints surface as 500. PUT answers 200
\* only when all three steps of updatePoll succeeded, DELETE answers 200 only
\* when the store delete succeeded, and a failed step is answered 500.
C6_StoreFailure500 ==
  \A p \in Procs :
     LET r == req[p] IN
     (Done(r) /\ r.kind \in {"PUT", "DELETE"})
     => /\ (r.kind = "PUT" /\ r.status = 200) => r.result.ok
        /\ WriteFailed(r) => r.status = 500

\* C7: not-found is distinguished from store failure. GET answers 404 only
\* when no poll row matches the id; a failed read of an existing poll is
\* answered 500.
C7_NotFoundOnlyWhenAbsent ==
  \A p \in Procs :
     LET r == req[p] IN
     (Done(r) /\ r.kind = "GET")
     => /\ r.status = 404 => r.owner = None
        /\ (ReadFailed(r) /\ r.owner # None) => r.status = 500

\* a create or update request that returned the poll it wrote
Succeeded(r) ==
  Done(r) /\ r.kind \in {"POST", "PUT"} /\ r.status = 200 /\ r.result.ok

\* C8: option-count invariant. In every reachable state a poll whose create
\* or update request returned success has between 2 and 10 option rows.
C8_OptionCount ==
  \A p \in Procs :
     (Succeeded(req[p]) /\ \E x \in polls : x.id = req[p].id)
     => /\ Cardinality(RowsOf(req[p].id)) >= OptionsMin
        /\ Cardinality(RowsOf(req[p].id)) <= OptionsMax

\* C9: createPoll partial failure. When the poll insert has succeeded and the
\* option insert returns an error, createPoll returns null there and then:
\* it issues no analytics insert and no compensating delete, the step changes
\* no row, and (no other process having written to the poll) the store holds
\* the new poll row with zero option rows, so getPollById gives options = [].
C9_CreatePartialFailure ==
  [][\A p \in Procs :
       (req[p].kind = "createPoll" /\ req[p].pc = "insert_options"
          /\ Moved(p) /\ req'[p].calls[2].err)
       => /\ Done(req'[p])
          /\ req'[p].result = NullResult
          /\ Ops(req'[p]) = <<"polls.insert", "poll_options.insert">>
          /\ store' = store
          /\ ~req'[p].raced =>
               /\ req[p].poll \in polls'
               /\ RowsOf(req[p].id)' = {}
               /\ Reread(req[p])'.ok
               /\ Reread(req[p])'.options = {}]_vars

C9_Witness ==
  \E p \in Procs :
     LET r == req[p] IN
     /\ Done(r) /\ r.kind = "createPoll" /\ ~r.raced
     /\ Ops(r) = <<"polls.insert", "poll_options.insert">>
     /\ ~r.calls[1].err /\ r.calls[2].err
     /\ r.result = NullResult
     /\ \E x \in polls : x.id = r.id
     /\ Reread(r).ok /\ Reread(r).options = {}

\* C10: the analytics insert is fire-and-forget. When the poll insert and
\* the option insert succeeded and the analytics insert returns an error,
\* createPoll returns, and POST answers with status 200, the created poll
\* with its options, and the step leaves the poll and option rows in place.
C10_AnalyticsFireAndForget ==
  [][\A p \in Procs :
       (req[p].pc = "insert_analytics" /\ Moved(p) /\ req'[p].calls[3].err)
       => /\ Done(req'[p])
          /\ req'[p].result.ok
          /\ req'[p].result.poll = req[p].poll
          /\ req'[p].result.options = req[p].result.options
          /\ req'[p].kind = "POST" => req'[p].status = 200
          /\ polls' = polls
          /\ poll_options' = poll_options
          /\ ~req'[p].raced =>
               /\ req[p].poll \in polls'
               /\ RowsOf(req[p].id)' = req'[p].result.options
               /\ Placed(req'[p].result.options) = Wanted(req[p].body.options)]_vars

C10_Witness ==
  \E p \in Procs :
     LET r == req[p] IN
     /\ Done(r) /\ r.kind = "POST" /\ r.status = 200 /\ r.result.ok
     /\ Len(r.calls) = 3 /\ r.calls[3].op = "poll_analytics.insert" /\ r.calls[3].err
     /\ ~r.calls[1].err /\ ~r.calls[2].err
     /\ r.result.poll \in polls
     /\ RowsOf(r.id) = r.result.options
     /\ Cardinality(r.result.options) = Len(r.body.options)

\* a creation that returned the poll: createPoll, or POST, which issues the
\* same three inserts
Created(r) == Done(r) /\ r.kind \in {"createPoll", "POST"} /\ r.result.ok

\* C11: one analytics row per poll. In every reachable state a poll has at
\* most one poll_analytics row, and the poll of a creation that returned
\* success has exactly one, with views, shares and unique_voters 0.
C11_OneAnalyticsRow ==
  /\ \A x \in polls : Cardinality(AnalyticsOf(x.id)) <= 1
  /\ \A p \in Procs :
       (Created(req[p]) /\ \E x \in polls : x.id = req[p].id)
       => AnalyticsOf(req[p].id) = {AnalyticsRow(req[p].id)}

\* the last store call of request r returned an error
LastErr(r) == r.calls # <<>> /\ r.calls[Len(r.calls)].err

\* C12: updatePoll partial failure. When the poll-row update succeeded and
\* the option delete or the option insert then returns an error, updatePoll
\* returns null and (no other process having written to the poll) the store
\* holds the poll with the input's title and end_date and with option rows
\* that are none or a strict subset of the requested ones.
C12_UpdatePartialFailure ==
  [][\A p \in Procs :
       (req[p].kind = "PUT" /\ req[p].pc \in {"delete_options", "insert_options"}
          /\ Moved(p) /\ LastErr(req'[p]))
       => /\ Done(req'[p])
          /\ req'[p].result = NullResult
          /\ ~req'[p].raced =>
               /\ \E x \in polls' :
                    /\ x.id = req[p].id
                    /\ x.title = req[p].body.title
                    /\ x.end_date = InsertedValue(req[p].body.end_date)
               /\ Placed(RowsOf(req[p].id)') \subseteq Wanted(req[p].body.options)
               /\ Placed(RowsOf(req[p].id)') # Wanted(req[p].body.options)]_vars

\* C13: cascade delete. Whenever deletePoll(id) completes without an error,
\* whatever identity its client carries, no poll row with that id is left,
\* getPollById(id) gives null, and no option, vote or analytics row refers
\* to the id.
C13_CascadeDelete ==
  [][\A p \in Procs :
       (req[p].pc = "delete_poll" /\ Moved(p) /\ ~LastErr(req'[p]))
       => /\ \A x \in polls' : x.id # req[p].id
          /\ ~Reread(req[p])'.ok
          /\ RowsOf(req[p].id)' = {}
          /\ \A v \in votes' : v.poll_id # req[p].id
          /\ AnalyticsOf(req[p].id)' = {}]_vars

(* ---------------- properties of reads and votes (StoreSpec) ----------- *)
\* the poll is public or the identity is its creator
Visible(x, uid) == x.is_public \/ (uid # None /\ x.created_by = uid)
\* the applied operation is a list read that met no store error
ListRead == applied.kind \in {"getAllPolls", "getUserPolls"} /\ ~applied.fault
\* the elements of a list whose poll was created by u, in list order
CreatedBy(list, u) ==
  LET Mine(e) == e.poll.created_by = u IN SelectSeq(list, Mine)

\* C14: list ordering and filtering. getAllPolls returns every poll visible
\* to the caller, once each, by created_at descending, and the empty list
\* when there are no polls; getUserPolls(u) returns exactly the elements of
\* that list whose created_by is u, in the same order.
C14_ListOrderAndFilter ==
  /\ (applied.kind = "getAllPolls" /\ ~applied.fault) =>
       LET out == applied.out IN
       /\ {out[i].poll : i \in 1..Len(out)} = {x \in polls : Visible(x, applied.uid)}
       /\ \A i, j \in 1..Len(out) :
            i < j => out[i].poll.created_at > out[j].poll.created_at
       /\ polls = {} => out = <<>>
  /\ (applied.kind = "getUserPolls" /\ ~applied.fault) =>
       applied.out = CreatedBy(getAllPolls(applied.uid, FALSE), applied.userId)

C14_Witness ==
  /\ applied.kind = "getAllPolls" /\ ~applied.fault
  /\ Len(applied.out) = 3
  /\ applied.out[1].poll.id = 2 /\ applied.out[2].poll.id = 3
  /\ applied.out[1].poll.created_by # applied.out[2].poll.created_by
  /\ Len(getUserPolls(applied.out[1].poll.created_by, applied.uid, FALSE)) = 2

\* C15: vote-count aggregation. The count getPollById returns for a poll is
\* the number of vote rows with that poll_id: 0 when there are none, N after
\* N votes by N distinct users across the poll's options.
C15_VoteCount ==
  (applied.kind = "getPollById" /\ applied.out.ok)
  => applied.out.votes = Cardinality({v \in votes : v.poll_id = applied.id})

C15_Witness ==
  /\ applied.kind = "getPollById" /\ applied.out.ok
  /\ applied.out.votes = Cardinality(Users)
  /\ Cardinality({v.user_id : v \in {w \in votes : w.poll_id = applied.id}})
       = Cardinality(Users)
  /\ Cardinality({v.option_id : v \in {w \in votes : w.poll_id = applied.id}}) = 2

\* what getPollById returned, as an element of a list
Element(g) == [poll |-> g.poll, options |-> g.options, votes |-> g.votes]

\* C16: one read shape. For every poll visible to the caller, its element
\* in getAllPolls() and in getUserPolls(created_by) is what getPollById(id)
\* returns: the same poll fields, options and vote count, and the poll
\* carries no poll_options or votes key.
C16_SameShape ==
  ListRead =>
    \A x \in polls :
       (Visible(x, applied.uid)
          /\ (applied.kind = "getUserPolls" => x.created_by = applied.userId))
       => \E i \in 1..Len(applied.out) :
            /\ applied.out[i].poll.id = x.id
            /\ getPollById(x.id, applied.uid, FALSE).ok
            /\ applied.out[i] = Element(getPollById(x.id, applied.uid, FALSE))
            /\ DOMAIN applied.out[i].poll \cap {"poll_options", "votes"} = {}

C16_Witness ==
  /\ applied.kind = "getUserPolls" /\ ~applied.fault
  /\ Len(applied.out) = 2
  /\ applied.out[2].votes = 2 /\ applied.out[1].votes = 0
  /\ Cardinality(applied.out[2].options) = 2
  /\ applied.out[2] = Element(getPollById(applied.out[2].poll.id, applied.uid, FALSE))

\* the vote insert is inside the voting window: its poll exists, is public
\* and has not ended at `now`, and the row's user is the acting identity
InWindow(row, uid, now) ==
  /\ \E x \in polls : /\ x.id = row.poll_id /\ x.is_public
                      /\ (x.end_date = Null \/ now < Instant(x.end_date))
  /\ row.user_id = uid
\* a vote row of the same user on the same option exists
Duplicate(row) ==
  \E v \in votes : v.user_id = row.user_id /\ v.option_id = row.option_id
\* a vote row of the same user on another option of the same poll exists
VotedElsewhere(row) ==
  \E v \in votes : /\ v.user_id = row.user_id /\ v.poll_id = row.poll_id
                    /\ v.option_id # row.option_id
OptionExists(row) == \E o \in poll_options : o.id = row.option_id

C18_VotingWindow ==
  [][applied'.kind = "vote" =>
       LET row == applied'.row IN
       /\ votes' # votes => InWindow(row, applied'.uid, applied'.now)
       /\ ~InWindow(row, applied'.uid, applied'.now)
          => /\ applied'.error = "policy"
             /\ votes' = votes
             /\ poll_analytics' = poll_analytics
       /\ \A v \in votes' \ votes : \A x \in polls :
            (x.id = v.poll_id /\ x.end_date # Null)
            => v.created_at < Instant(x.end_date)]_vars

C18_Witness ==
  /\ applied.kind = "vote" /\ applied.error = "policy"
  /\ applied.row.user_id = applied.uid
  /\ ~Duplicate(applied.row)
  /\ \E x \in polls : /\ x.id = applied.row.poll_id /\ x.is_public
                      /\ x.end_date # Null /\ applied.now = Instant(x.end_date)

\* C19: distinct-voter counter. A vote insert that the policy and the
\* constraints admit is stored, and immediately after it unique_voters of
\* the poll is the number of distinct user_id among the poll's vote rows,
\* whether or not the poll had an analytics row before.
C19_DistinctVoters ==
  [][(/\ applied'.kind = "vote"
      /\ InWindow(applied'.row, applied'.uid, applied'.now)
      /\ ~Duplicate(applied'.row)
      /\ OptionExists(applied'.row))
     => /\ applied'.error = "none"
        /\ \E a \in poll_analytics' :
             /\ a.poll_id = applied'.row.poll_id
             /\ a.unique_voters =
                  Cardinality({v.user_id :
                     v \in {w \in votes' : w.poll_id = applied'.row.poll_id}})]_vars

\* C20: read visibility is owner-or-public. Every poll that getPollById,
\* getAllPolls or getUserPolls returns is a stored poll that is public or
\* created by the acting identity, with that poll's options; a private poll
\* asked for by another identity or by an anonymous caller gives null.
C20_ReadVisibility ==
  /\ applied.kind = "getPollById" =>
       /\ applied.out.ok =>
            /\ applied.out.poll \in polls
            /\ Visible(applied.out.poll, applied.uid)
            /\ applied.out.options = RowsOf(applied.out.poll.id)
       /\ (\E x \in polls : x.id = applied.id /\ ~Visible(x, applied.uid))
          => applied.out = NullResult
  /\ applied.kind \in {"getAllPolls", "getUserPolls"} =>
       \A i \in 1..Len(applied.out) :
          /\ applied.out[i].poll \in polls
          /\ Visible(applied.out[i].poll, applied.uid)
          /\ applied.out[i].options = RowsOf(applied.out[i].poll.id)

C20_Witness ==
  /\ applied.kind = "getPollById" /\ applied.out = NullResult
  /\ applied.uid # None
  /\ \E x \in polls : /\ x.id = applied.id /\ ~x.is_public
                      /\ x.created_by # applied.uid
                      /\ RowsOf(x.id) # {}
                      /\ \E v \in votes : v.poll_id = x.id

(* ------------------------------- C21 ---------------------------------- *)
\* C21: createPollSchema accepts an input exactly when its title has 5 to
\* 255 characters, it has 2 to 10 options, every option has 1 to 100
\* characters and end_date is a string, null or absent; each violated limit
\* is reported at its own path, whatever else is violated with it.
C21_ValidatorBounds ==
  applied.kind = "safeParse" =>
    LET b == applied.body
        out == applied.out
        titleOk == b.title.len >= 5 /\ b.title.len <= 255
        countOk == Len(b.options) >= 2 /\ Len(b.options) <= 10
        optionOk(i) == b.options[i].len >= 1 /\ b.options[i].len <= 100
        dateOk == b.end_date # NotAString
    IN /\ out.success <=>
            (/\ titleOk /\ countOk /\ dateOk
             /\ \A i \in 1..Len(b.options) : optionOk(i))
       /\ (<<"title">> \in out.issues) <=> ~titleOk
       /\ (<<"options">> \in out.issues) <=> ~countOk
       /\ (<<"end_date">> \in out.issues) <=> ~dateOk
       /\ \A i \in 1..Len(b.options) :
            (<<"options", i>> \in out.issues) <=> ~optionOk(i)

\* a title of 4 characters with a single option yields two violations
C21_Witness ==
  /\ applied.kind = "safeParse"
  /\ applied.body.title.len = 4
  /\ Len(applied.body.options) = 1
  /\ ~applied.out.success
  /\ applied.out.issues = {<<"title">>, <<"options">>}

(* ------------------------------- C22 ---------------------------------- *)
IsPrefix(s, t) == Len(s) <= Len(t) /\ \A i \in 1..Len(s) : s[i] = t[i]
createPoll_order == <<"polls.insert", "poll_options.insert", "poll_analytics.insert">>
updatePoll_order == <<"polls.update", "poll_options.delete", "poll_options.insert">>

\* C22: step order, no retry, stop on first failure. The store calls of one
\* createPoll are a prefix of poll insert, option insert, analytics insert and
\* those of one updatePoll (after the handler's getPollById) a prefix of poll
\* update, option delete, option insert; no call follows a call that returned
\* an error; and when the poll-row update returns an error the step changes
\* no row (the options are left as they were) and null is returned.
C22_StepOrder ==
  [][\A p \in Procs :
       Moved(p) =>
         LET r == req'[p] IN
         /\ r.kind = "createPoll" => IsPrefix(Ops(r), createPoll_order)
         /\ r.kind = "PUT" =>
              IsPrefix(Ops(r), <<"getPollById">> \o updatePoll_order)
         /\ r.kind \in {"createPoll", "PUT"} =>
              \A i \in 1..(Len(r.calls) - 1) : ~r.calls[i].err
         /\ (req[p].kind = "PUT" /\ req[p].pc = "update_poll" /\ LastErr(r))
              => /\ Done(r)
                 /\ r.result = NullResult
                 /\ store' = store]_vars

\* an updatePoll whose poll-row update failed, the poll's options still there,
\* beside a createPoll that stopped at its failed option insert
C22_Witness ==
  \E p, q \in Procs :
     /\ req[p].kind = "PUT" /\ Done(req[p])
     /\ Ops(req[p]) = <<"getPollById", "polls.update">>
     /\ LastErr(req[p])
     /\ req[p].result = NullResult
     /\ RowsOf(req[p].id) # {}
     /\ req[q].kind = "createPoll" /\ Done(req[q])
     /\ Ops(req[q]) = <<"polls.insert", "poll_options.insert">>
     /\ LastErr(req[q])

(* ------------------------------- C23 ---------------------------------- *)
\* an updatePoll that has returned the poll with its inserted options
Updated(r) == Done(r) /\ r.kind = "PUT" /\ r.result.ok

\* C23: lost update. An updatePoll that returns success has inserted the
\* option rows it returns, one per requested option; rows of a returned
\* updatePoll leave the store only in the option-delete step of another
\* updatePoll, or the delete of another deletePoll, on the same poll id. (The
\* state in which a concurrent call's delete has removed all of them is
\* C23_Witness.)
C23_LostUpdate ==
  [][\A p \in Procs :
       /\ (req[p].kind = "PUT" /\ req[p].pc = "insert_options" /\ Moved(p)
              /\ req'[p].result.ok)
            => /\ req'[p].result.options \subseteq poll_options'
               /\ Placed(req'[p].result.options) = Wanted(req[p].body.options)
               /\ Cardinality(req'[p].result.options) = Len(req[p].body.options)
       /\ (Updated(req[p]) /\ req'[p] = req[p]
              /\ \E o \in req[p].result.options :
                    o \in poll_options /\ o \notin poll_options')
            => \E q \in Procs \ {p} :
                  /\ Moved(q)
                  /\ req[q].id = req[p].id
                  /\ req[q].pc \in {"delete_options", "delete_poll"}]_vars

\* two updatePoll calls on one poll overlapped and both have finished; one
\* returned success with its inserted options, none of which is left, the
\* other's option delete having run after them; the poll itself is there
C23_Witness ==
  \E p, q \in Procs :
     /\ p # q
     /\ Updated(req[p]) /\ req[p].raced
     /\ req[q].kind = "PUT" /\ Done(req[q]) /\ req[q].id = req[p].id
     /\ \E i \in 1..Len(req[q].calls) :
           req[q].calls[i].op = "poll_options.delete" /\ ~req[q].calls[i].err
     /\ req[p].result.options # {}
     /\ req[p].result.options \cap poll_options = {}
     /\ \E x \in polls : x.id = req[p].id

(* ------------------------------- C24 ---------------------------------- *)
\* the stored poll id with its options is what request r alone asked for (an
\* end_date absent from the input says nothing about the stored one)
StoredAsAsked(r) ==
  /\ \E x \in polls :
        /\ x.id = r.id
        /\ x.title = r.body.title
        /\ r.body.end_date # Absent => x.end_date = r.body.end_date
  /\ Placed(RowsOf(r.id)) = Wanted(r.body.options)
  /\ Cardinality(RowsOf(r.id)) = Len(r.body.options)

\* C24: poll and options are replaced as one unit. When two overlapping
\* updatePoll calls on the same poll have both returned success (the poll
\* still being there), the stored title, end_date and option rows are all
\* those of one of the two calls.
C24_ReplacedAsUnit ==
  \A p, q \in Procs :
     (/\ p # q
      /\ Updated(req[p]) /\ Updated(req[q])
      /\ req[p].id = req[q].id
      /\ req[p].raced \/ req[q].raced
      /\ \E x \in polls : x.id = req[p].id)
     => StoredAsAsked(req[p]) \/ StoredAsAsked(req[q])

(* ------------------------------- C25 ---------------------------------- *)
\* a finished create request of the given kind that met no store fault and
\* no concurrent write to its poll
CleanCreate(r, kind) ==
  Done(r) /\ r.kind = kind /\ r.user # None /\ Valid(r.body) /\ NoFault(r) /\ ~r.raced

\* C25: POST /polls and createPoll are equivalent writers. For the same valid
\* input and the same user, without store faults, the handler and createPoll
\* issue the same store calls with the same outcomes, agree on success, and
\* return the same poll fields and the same options with the same positions.
C25_EquivalentWriters ==
  \A p, q \in Procs :
     (/\ CleanCreate(req[p], "POST") /\ CleanCreate(req[q], "createPoll")
      /\ req[p].user = req[q].user
      /\ req[p].body = req[q].body)
     => /\ req[p].result.ok = req[q].result.ok
        /\ req[p].calls = req[q].calls
        /\ req[p].result.ok =>
             /\ req[p].result.poll.title = req[q].result.poll.title
             /\ req[p].result.poll.end_date = req[q].result.poll.end_date
             /\ req[p].result.poll.created_by = req[q].result.poll.created_by
             /\ Placed(req[p].result.options) = Placed(req[q].result.options)

(* ------------------------------- C28 ---------------------------------- *)
PollExists(id) == \E x \in polls : x.id = id

\* C28: no dangling rows. In every reachable state, however createPoll,
\* updatePoll and deletePoll interleave, every option row, vote row and
\* analytics row references a poll row that exists and every vote row
\* references an option row that exists.
C28_NoDangling ==
  /\ \A o \in poll_options : PollExists(o.poll_id)
  /\ \A a \in poll_analytics : PollExists(a.poll_id)
  /\ \A v \in votes :
       /\ PollExists(v.poll_id)
       /\ \E o \in poll_options : o.id = v.option_id

\* a delete landed between the steps of an update: the update's option
\* insert was refused for the missing poll, and nothing refers to the id
C28_Witness ==
  \E p \in Procs :
     /\ req[p].kind = "PUT" /\ Done(req[p]) /\ req[p].raced
     /\ Ops(req[p]) = <<"getPollById">> \o updatePoll_order
     /\ ~req[p].calls[2].err /\ ~req[p].calls[3].err
     /\ req[p].calls[4].err /\ ~req[p].calls[4].fault
     /\ ~PollExists(req[p].id)
     /\ RowsOf(req[p].id) = {}

(* ------------------------------- C26 ---------------------------------- *)
\* C26: editing a poll discards its votes. Once updatePoll's option delete
\* has succeeded no vote row of the poll is left, and after a successful
\* updatePoll getPollById reports a vote count of 0, however many vote rows
\* the poll had.
C26_EditDiscardsVotes ==
  applied.kind = "updatePoll" =>
    /\ applied.calls = 3 => \A v \in votes : v.poll_id # applied.id
    /\ applied.out.ok =>
         LET got == getPollById(applied.id, applied.uid, FALSE) IN
         got.ok /\ got.votes = 0

\* a successful updatePoll of a poll that had several vote rows
C26_Witness ==
  /\ applied.kind = "updatePoll"
  /\ applied.out.ok
  /\ applied.had > 1
  /\ getPollById(applied.id, applied.uid, FALSE).votes = 0

OptionOfOtherPoll(row) ==
  \E o \in poll_options : o.id = row.option_id /\ o.poll_id # row.poll_id

C30_UpdateFrame ==
  [][applied'.kind = "updatePoll" =>
       LET id == applied'.id IN
       /\ {x \in polls : x.id # id} = {x \in polls' : x.id # id}
       /\ \A x \in polls : x.id = id =>
            \E y \in polls' : y = [x EXCEPT !.title = y.title,
                                            !.end_date = y.end_date]
       /\ Cardinality(polls') = Cardinality(polls)
       /\ {o \in poll_options : o.poll_id # id} = {o \in poll_options' : o.poll_id # id}
       /\ {v \in votes : v.poll_id # id} = {v \in votes' : v.poll_id # id}
       /\ votes' \subseteq votes
       /\ poll_analytics' = poll_analytics]_vars

\* a successful updatePoll of a private poll that had votes, beside another
\* poll with votes and an analytics row
C30_Witness ==
  /\ applied.kind = "updatePoll"
  /\ applied.out.ok
  /\ applied.had > 0
  /\ \E x \in polls : x.id = applied.id /\ ~x.is_public
  /\ \E v \in votes : v.poll_id # applied.id
  /\ \E a \in poll_analytics : a.poll_id # applied.id

====
